---- MODULE Spec2Model ----
(***************************************************************************)
(* Token lifecycle and session tracking of the auth-service:               *)
(* AuthService (src/auth/auth.service.ts), the session-aware               *)
(* AuthController (src/cache/cache.module.ts) and UsersService             *)
(* (src/users/users.service.ts), over the Prisma User and Session tables.  *)
(* Each HTTP handler is one atomic action; the clock counts seconds.       *)
(***************************************************************************)
EXTENDS Integers, Sequences, FiniteSets, TLC

\* ------------------------------------------------------------------ bounds
MaxTicks == 1
MaxSessions == 2
MaxRefreshes == 1
MaxCreateFailures == 1
MaxPending == 2
MaxClockSteps == 3
\* how many requests the throttler counts
MaxHits == 12

\* ------------------------------------------------------- program constants
AccessTTL == 900
RefreshTTL == 604800
BcryptRounds == 10
\* @Throttle({ default: { limit: 10, ttl: 60 } }): ttl is in milliseconds
ThrottleTTL == 60
ThrottleLimit == 10

\* how a request ends: a returned value, or the exception the handler throws
Ok == "Ok"
UnauthorizedException == "UnauthorizedException"
ForbiddenException == "ForbiddenException"
PrismaClientKnownRequestError == "PrismaClientKnownRequestError"
PrismaClientInitializationError == "PrismaClientInitializationError"
JsonWebTokenError == "JsonWebTokenError"
TokenExpiredError == "TokenExpiredError"

\* mutant: one secret signs both kinds of token
JWT_SECRET_Shared == "JWT_REFRESH_SECRET"

\* configService.get('JWT_SECRET') and configService.get('JWT_REFRESH_SECRET')
JWT_SECRET == "JWT_SECRET"
JWT_REFRESH_SECRET == "JWT_REFRESH_SECRET"
\* a key that is neither
ForgedSecret == "not-a-server-secret"

Null == "null"
NoFields == [k \in {} |-> k]

\* ------------------------------------------------------------ input domains
\* A byte string that bcrypt reads is kept as its first 72 bytes and the rest.
Str(s) == [head |-> s, tail |-> ""]
LongStr(prefix72, rest) == [head |-> prefix72, tail |-> rest]

Emails == {"a@x.com", "b@x.com"}
Passwords == {LongStr("p72", "x"), LongStr("p72", "y"), Str("pw2")}
RegisterBodies ==
    { [email |-> "a@x.com", password |-> LongStr("p72", "x"), name |-> "A"],
      [email |-> "b@x.com", password |-> Str("pw2"), name |-> "B"] }
LoginBodies == [email : Emails, password : Passwords]
\* the parts of an express Request that login reads
Requests ==
    { [userAgent |-> "Firefox", ip |-> "10.0.0.1", remoteAddress |-> "10.0.0.1"],
      [userAgent |-> Null, ip |-> Null, remoteAddress |-> Null] }
\* the keys and values callers of BaseCacheService use
CacheKeys == {"user:1", "session:1"}
CacheValues == {"v1", "v2", "v3"}
\* what the cache manager returns for a key it does not hold
Undefined == "undefined"
TickSteps == {AccessTTL, RefreshTTL}

VARIABLES
    users,          \* rows of the User table
    sessions,       \* rows of the Session table
    nextUserId,     \* User.id autoincrement
    nextSessionId,  \* Session.id autoincrement
    uuidCount,      \* how many values randomUUID has produced
    now,            \* the clock, in seconds
    ticks,          \* how many times the clock advanced
    issued,         \* every token handed to a client so far
    revoked,        \* history: the Session rows deleted so far
    superseded,     \* history: tokens carrying a jti that a successful refresh answered with another token
    registered,     \* history: the register bodies that created a user
    pending,        \* the requests in flight: a handler suspended at an await, with its locals
    hits,           \* the requests the throttler has counted, oldest first
    cache,          \* what the cache manager stores under each key
    res             \* the last request and its response

vars == <<users, sessions, nextUserId, nextSessionId, uuidCount, now, ticks,
          issued, revoked, superseded, registered, pending, hits, cache, res>>

\* ---------------------------------------------------------------- bcrypt
\* the bytes bcrypt uses of its input: the first 72
first72(data) == data.head

\* bcrypt.hash(data, 10): a one-way digest of the bytes bcrypt uses
bcryptHash(data) == [alg |-> "bcrypt", rounds |-> BcryptRounds, of |-> first72(data)]

\* bcrypt.compare(data, encrypted)
bcryptCompare(data, encrypted) == encrypted = bcryptHash(data)

\* ------------------------------------------------------------ JwtService
\* jwtService.sign(payload, {secret, expiresIn}) at clock t
sign(payload, secret, expiresIn, t) ==
    [payload |-> payload @@ [iat |-> t, exp |-> t + expiresIn], secret |-> secret]

\* mutant: a token is still good in the second its exp names
verifies_ThroughExp(token, secret, t) ==
    /\ token.secret = secret
    /\ t <= token.payload.exp

\* the payload jwtService.verify(token, {secret}) returns when it does not throw
verify(token) == token.payload

\* jwtService.verify(token, {secret}) at clock t returns the payload (does not throw)
verifies(token, secret, t) ==
    /\ token.secret = secret
    /\ t < token.payload.exp

\* what jwtService.verify(token, {secret}) throws at clock t, when it throws:
\* the signature is checked before the expiry
verifyThrows(token, secret, t) ==
    IF token.secret # secret
    THEN [status |-> JsonWebTokenError, message |-> "invalid signature"]
    ELSE [status |-> TokenExpiredError, message |-> "jwt expired"]

\* the compact serialization of a token that generateTokens signed, as bcrypt
\* reads it: header, sub and email fall in the first 72 bytes
jwtString(token) ==
    LongStr(<<"HS256", token.payload.sub, token.payload.email>>,
            <<token.payload.iat, token.payload.exp, token.secret>>)

\* ----------------------------------------------------------- UsersService
findByEmail(email) == {u \in users : u.email = email}
findById(id) == {u \in users : u.id = id}

\* User.refreshToken holding no hash (the column is nullable)
NoRefreshToken == [alg |-> "null", rounds |-> 0, of |-> <<>>]

\* prisma.user.create({data}) throws: email is @unique
userCreateFails(data) == findByEmail(data.email) # {}
\* the row prisma.user.create({data}) inserts
userRow(data) ==
    [id |-> nextUserId, email |-> data.email, password |-> data.password,
     name |-> data.name, refreshToken |-> NoRefreshToken]

\* mutant: the update is lost
updateRefreshToken_Lost(table, userId, refreshToken) == table

\* mutant: the where clause is dropped
updateRefreshToken_NoWhere(table, userId, refreshToken) ==
    {[u EXCEPT !.refreshToken = refreshToken] : u \in table}

\* usersService.updateRefreshToken(userId, refreshToken) over a table
updateRefreshToken(table, userId, refreshToken) ==
    {IF u.id = userId THEN [u EXCEPT !.refreshToken = refreshToken] ELSE u : u \in table}

\* ---------------------------------------------------------- AuthService
\* mutant: the value of the previous call is returned again
randomUUID_Repeat == IF uuidCount = 0 THEN 1 ELSE uuidCount

\* randomUUID(): a value no earlier call returned
randomUUID == uuidCount + 1

\* generateTokens(userId, email) at clock t
generateTokens(userId, email, t) ==
    LET payload == [sub |-> userId, email |-> email] IN
    [accessToken |-> sign(payload, JWT_SECRET, AccessTTL, t),
     refreshToken |-> sign(payload, JWT_REFRESH_SECRET, RefreshTTL, t)]

\* validateUser(email, password): the user, or none when it throws
validateUser(email, password) ==
    {u \in findByEmail(email) : bcryptCompare(password, u.password)}

\* mutant: an unknown email gets a message of its own
userNotFound_OwnMessage ==
    [status |-> UnauthorizedException, message |-> "Usuario no encontrado"]

\* what validateUser throws when findByEmail finds no user
userNotFound ==
    [status |-> UnauthorizedException, message |-> "Credenciales inválidas"]

\* what validateUser throws when bcrypt.compare is false
passwordMismatch ==
    [status |-> UnauthorizedException, message |-> "Credenciales inválidas"]

\* what validateUser(email, password) throws, when it throws
validateUserThrows(email, password) ==
    IF findByEmail(email) = {} THEN userNotFound ELSE passwordMismatch

\* mutant: the access token is signed with the refresh lifetime
loginTokens_LongAccess(user, jti, t) ==
    [refreshToken |-> sign([sub |-> user.id, jti |-> jti], JWT_REFRESH_SECRET, RefreshTTL, t),
     accessToken |-> sign([sub |-> user.id], JWT_SECRET, RefreshTTL, t)]

\* the token pair login(user, req) signs, for the jti it drew
loginTokens(user, jti, t) ==
    [refreshToken |-> sign([sub |-> user.id, jti |-> jti], JWT_REFRESH_SECRET, RefreshTTL, t),
     accessToken |-> sign([sub |-> user.id], JWT_SECRET, AccessTTL, t)]

\* the Session row login(user, req) creates
loginSession(user, jti, refreshToken, req, t) ==
    [id |-> nextSessionId,
     userId |-> user.id,
     jti |-> jti,
     refreshToken |-> refreshToken,
     userAgent |-> IF req.userAgent # Null THEN req.userAgent ELSE "unknown",
     ip |-> IF req.ip # Null THEN req.ip
            ELSE IF req.remoteAddress # Null THEN req.remoteAddress ELSE "unknown",
     createdAt |-> t,
     updatedAt |-> t]

\* prisma.session.create({data}) throws: jti is @unique
sessionCreateFails(row) == \E s \in sessions : s.jti = row.jti

\* mutant: the where clause is dropped
findFirstByJti_NoWhere(payload) == sessions

\* prisma.session.findFirst({where: {jti: payload.jti}}): the rows it may return.
\* A where field whose value is undefined is no filter in Prisma.
findFirstByJti(payload) ==
    IF "jti" \in DOMAIN payload
    THEN {s \in sessions : s.jti = payload.jti}
    ELSE sessions

\* mutant: the refresh re-keys the session with a jti of its own
refreshTokens_NewJti(user, session, t) ==
    [accessToken |-> sign([sub |-> user.id], JWT_SECRET, AccessTTL, t),
     refreshToken |-> sign([sub |-> user.id, jti |-> randomUUID],
                           JWT_REFRESH_SECRET, RefreshTTL, t)]

\* the token pair refreshToken(token) signs once user and session are found
refreshTokens(user, session, t) ==
    [accessToken |-> sign([sub |-> user.id], JWT_SECRET, AccessTTL, t),
     refreshToken |-> sign([sub |-> user.id, jti |-> session.jti],
                           JWT_REFRESH_SECRET, RefreshTTL, t)]

\* mutant: the refresh stores its token in a row of its own
sessionsAfterRefresh_NewRow(session, tokens) ==
    sessions \cup {[session EXCEPT !.id = nextSessionId, !.refreshToken = tokens.refreshToken]}

\* mutant: the refresh upserts the row it found with its new token
sessionsAfterRefresh_Upsert(session, tokens) ==
    {s \in sessions : s.id # session.id}
        \cup {[session EXCEPT !.refreshToken = tokens.refreshToken]}

\* the Session table after refreshToken(token) found `session`: it writes nothing
sessionsAfterRefresh(session, tokens) == sessions

\* the user and the session refreshToken(token) can find once the token
\* verified; none when verify or a lookup throws
refreshFinds(token) ==
    IF ~verifies(token, JWT_REFRESH_SECRET, now) THEN {}
    ELSE { [user |-> user, session |-> session] :
             user \in findById(token.payload.sub),
             session \in findFirstByJti(token.payload) }

\* refreshToken(token): every result it can return; none when it throws
refreshToken(token) ==
    { [tokens |-> refreshTokens(f.user, f.session, now), session |-> f.session] :
        f \in refreshFinds(token) }

\* what the try block of refreshToken(token) throws, when it throws
refreshThrows(token) ==
    IF ~verifies(token, JWT_REFRESH_SECRET, now)
    THEN verifyThrows(token, JWT_REFRESH_SECRET, now)
    ELSE IF findById(token.payload.sub) = {}
    THEN [status |-> UnauthorizedException, message |-> "Usuario no encontrado"]
    ELSE [status |-> UnauthorizedException, message |-> "Sesión inválida"]

\* mutant: the catch rethrows what it caught
refreshCatch_Rethrow(error) == error

\* refreshToken's `catch (error)`: what it throws in place of error
refreshCatch(error) == [status |-> UnauthorizedException, message |-> "Token inválido"]

\* ------------------------------------------------------- AuthController
\* JwtAuthGuard: the request carries an access token that verifies
JwtAuthGuard(token) == verifies(token, JWT_SECRET, now)
\* req.user.sub of the requests the guard lets through
Authenticated == {t.payload.sub : t \in {a \in issued : JwtAuthGuard(a)}}

\* prisma.session.findUnique({where: {id: sessionId}})
findSessionById(sessionId) == {s \in sessions : s.id = sessionId}

\* mutant: the where clause is dropped
getSessions_NoWhere(userId) ==
    { [id |-> s.id, userAgent |-> s.userAgent, ip |-> s.ip,
       createdAt |-> s.createdAt, updatedAt |-> s.updatedAt] : s \in sessions }

\* GET /auth/sessions: the rows findMany({where: {userId}, select}) returns
getSessions(userId) ==
    { [id |-> s.id, userAgent |-> s.userAgent, ip |-> s.ip,
       createdAt |-> s.createdAt, updatedAt |-> s.updatedAt] :
         s \in {r \in sessions : r.userId = userId} }

\* mutant: only the owner is tested, not whether the row exists
revokeForbidden_NoAbsentTest(found, userId) == \E s \in found : s.userId # userId

\* mutant: the ownership test is dropped
revokeForbidden_NoOwnerTest(found, userId) == found = {}

\* revokeSession's test `!session || session.userId !== userId`
revokeForbidden(found, userId) == found = {} \/ (\E s \in found : s.userId # userId)

\* mutant: delete by the owner of the row instead of by its id
deleteById_ByOwner(sessionId) ==
    {s \in sessions : \E t \in sessions : t.id = sessionId /\ s.userId = t.userId}

\* prisma.session.delete({where: {id: sessionId}}): the rows it removes
deleteById(sessionId) == {s \in sessions : s.id = sessionId}

\* mutant: the where clause is dropped
deleteManyByUser_NoWhere(userId) == sessions

\* prisma.session.deleteMany({where: {userId}}): the rows it removes
deleteManyByUser(userId) == {s \in sessions : s.userId = userId}

\* the refresh cookie login and refresh set
refreshCookie(refreshTokenValue) ==
    [name |-> "refresh_token", value |-> refreshTokenValue, httpOnly |-> TRUE,
     secure |-> TRUE, sameSite |-> "strict", path |-> "/auth/refresh",
     maxAge |-> RefreshTTL * 1000]

\* ------------------------------------------------------------ bookkeeping
RefreshIssued(tokens) == {t \in tokens : t.secret = JWT_REFRESH_SECRET}
\* how many refresh tokens other than those of register and login were handed out
Refreshed(tokens) == Cardinality(RefreshIssued(tokens)) - (nextUserId - 1) - (nextSessionId - 1)

Response(op, req, status, message, body, cookie) ==
    [op |-> op, req |-> req, status |-> status, message |-> message,
     body |-> body, cookie |-> cookie]

Init ==
    /\ users = {}
    /\ sessions = {}
    /\ nextUserId = 1
    /\ nextSessionId = 1
    /\ uuidCount = 0
    /\ now = 0
    /\ ticks = 0
    /\ issued = {}
    /\ revoked = {}
    /\ superseded = {}
    /\ registered = {}
    /\ pending = {}
    /\ hits = <<>>
    /\ cache = [key \in CacheKeys |-> Undefined]
    /\ res = Response("boot", NoFields, Ok, "", NoFields, NoFields)

\* the clock advances
Tick(d) ==
    /\ ticks < MaxTicks
    /\ now' = now + d
    /\ ticks' = ticks + 1
    /\ UNCHANGED <<users, sessions, nextUserId, nextSessionId, uuidCount, issued,
                   revoked, superseded, registered, res, pending, hits, cache>>

\* POST /auth/register
Register(body) ==
    LET data == [body EXCEPT !.password = bcryptHash(body.password)]
        newUser == userRow(data)
        tokens == generateTokens(newUser.id, newUser.email, now)
        hashedRefreshToken == bcryptHash(jwtString(tokens.refreshToken))
    IN
    IF userCreateFails(data)
    THEN /\ res' = Response("register", body, PrismaClientKnownRequestError,
                            "Internal server error", NoFields, NoFields)
         /\ UNCHANGED <<users, sessions, nextUserId, nextSessionId, uuidCount, now,
                        ticks, issued, revoked, superseded, registered, pending, hits, cache>>
    ELSE /\ users' = updateRefreshToken(users \cup {newUser}, newUser.id, hashedRefreshToken)
         /\ nextUserId' = nextUserId + 1
         /\ issued' = issued \cup {tokens.accessToken, tokens.refreshToken}
         /\ registered' = registered \cup {body}
         /\ res' = Response("register", body, Ok, "",
                            [access_token |-> tokens.accessToken,
                             refresh_token |-> tokens.refreshToken,
                             user |-> [id |-> newUser.id, email |-> newUser.email,
                                       name |-> newUser.name]],
                            NoFields)
         /\ UNCHANGED <<sessions, nextSessionId, uuidCount, now, ticks, revoked,
                        superseded, pending, hits, cache>>

\* POST /auth/login: the handler, without the throttler in front of it
LoginRequest(body, req) ==
    LET found == validateUser(body.email, body.password) IN
    IF found = {}
    THEN /\ res' = Response("login", body, validateUserThrows(body.email, body.password).status,
                            validateUserThrows(body.email, body.password).message,
                            NoFields, NoFields)
         /\ UNCHANGED <<users, sessions, nextUserId, nextSessionId, uuidCount, now,
                        ticks, issued, revoked, superseded, registered, pending, cache>>
    ELSE \E user \in found :
           LET jti == randomUUID
               tokens == loginTokens(user, jti, now)
               row == loginSession(user, jti, tokens.refreshToken, req, now)
           IN
           /\ nextSessionId <= MaxSessions
           /\ uuidCount' = uuidCount + 1
           /\ IF sessionCreateFails(row)
              THEN /\ res' = Response("login", body, PrismaClientKnownRequestError,
                                      "Internal server error", NoFields, NoFields)
                   /\ UNCHANGED <<sessions, nextSessionId, issued>>
              ELSE /\ sessions' = sessions \cup {row}
                   /\ nextSessionId' = nextSessionId + 1
                   /\ issued' = issued \cup {tokens.accessToken, tokens.refreshToken}
                   /\ res' = Response("login", body, Ok, "",
                                      [accessToken |-> tokens.accessToken],
                                      refreshCookie(tokens.refreshToken))
           /\ UNCHANGED <<users, nextUserId, now, ticks, revoked, superseded, registered,
                          pending, cache>>

\* POST /auth/login
Login(body, req) == LoginRequest(body, req) /\ UNCHANGED hits

\* POST /auth/refresh without a refresh_token cookie
RefreshNoCookie ==
    /\ res' = Response("refresh", NoFields, UnauthorizedException,
                       "No hay refresh token", NoFields, NoFields)
    /\ UNCHANGED <<users, sessions, nextUserId, nextSessionId, uuidCount, now, ticks,
                   issued, revoked, superseded, registered, pending, hits, cache>>

\* POST /auth/refresh with the cookie refresh_token = token
Refresh(token) ==
    LET request == [refresh_token |-> token]
        results == refreshToken(token)
    IN
    IF results = {}
    THEN /\ res' = Response("refresh", request, refreshCatch(refreshThrows(token)).status,
                            refreshCatch(refreshThrows(token)).message, NoFields, NoFields)
         /\ UNCHANGED <<users, sessions, nextUserId, nextSessionId, uuidCount, now,
                        ticks, issued, revoked, superseded, registered, pending, hits, cache>>
    ELSE \E r \in results :
           /\ Refreshed(issued \cup {r.tokens.refreshToken}) <= MaxRefreshes
           /\ sessions' = sessionsAfterRefresh(r.session, r.tokens)
           /\ issued' = issued \cup {r.tokens.accessToken, r.tokens.refreshToken}
           /\ superseded' = IF "jti" \in DOMAIN token.payload /\ r.tokens.refreshToken # token
                            THEN superseded \cup {token} ELSE superseded
           /\ res' = Response("refresh", request, Ok, "",
                              [accessToken |-> r.tokens.accessToken],
                              refreshCookie(r.tokens.refreshToken))
           /\ UNCHANGED <<users, nextUserId, nextSessionId, uuidCount, now,
                          ticks, revoked, registered, pending, hits, cache>>

\* the tokens a client can present: those it was handed, and copies of the
\* stored refresh tokens signed with another key
Forged(token) == [token EXCEPT !.secret = ForgedSecret]
Presentable == issued \cup {Forged(s.refreshToken) : s \in sessions}

\* DELETE /auth/sessions/:id by the user the JwtAuthGuard authenticated
RevokeSession(sessionId, userId) ==
    LET session == findSessionById(sessionId)
        request == [id |-> sessionId, userId |-> userId]
    IN
    /\ IF revokeForbidden(session, userId)
       THEN /\ res' = Response("revokeSession", request, ForbiddenException,
                               "No autorizado para eliminar esta sesión", NoFields, NoFields)
            /\ UNCHANGED <<sessions, revoked>>
       ELSE /\ sessions' = sessions \ deleteById(sessionId)
            /\ revoked' = revoked \cup deleteById(sessionId)
            /\ res' = Response("revokeSession", request, Ok,
                               "Sesión revocada correctamente", NoFields, NoFields)
    /\ UNCHANGED <<users, nextUserId, nextSessionId, uuidCount, now, ticks, issued,
                   superseded, registered, pending, hits, cache>>

\* DELETE /auth/sessions by the user the JwtAuthGuard authenticated
LogoutAll(userId) ==
    LET request == [userId |-> userId] IN
    /\ sessions' = sessions \ deleteManyByUser(userId)
    /\ revoked' = revoked \cup deleteManyByUser(userId)
    /\ res' = Response("logoutAll", request, Ok, "Todas las sesiones cerradas",
                       NoFields, NoFields)
    /\ UNCHANGED <<users, nextUserId, nextSessionId, uuidCount, now, ticks, issued,
                   superseded, registered, pending, hits, cache>>

\* POST /auth/logout by the user the JwtAuthGuard authenticated
Logout(userId) ==
    LET request == [userId |-> userId] IN
    /\ findById(userId) # {}
    /\ users' = updateRefreshToken(users, userId, NoRefreshToken)
    /\ res' = Response("logout", request, Ok, "Sesión cerrada correctamente",
                       NoFields, NoFields)
    /\ UNCHANGED <<sessions, nextUserId, nextSessionId, uuidCount, now, ticks, issued,
                   revoked, superseded, registered, pending, hits, cache>>

Next ==
    \/ \E d \in TickSteps : Tick(d)
    \/ \E body \in RegisterBodies : Register(body)
    \/ \E body \in LoginBodies, req \in Requests : Login(body, req)
    \/ RefreshNoCookie
    \/ \E token \in Presentable : Refresh(token)
    \/ \E id \in 1..nextSessionId, userId \in Authenticated : RevokeSession(id, userId)
    \/ \E userId \in Authenticated : LogoutAll(userId)

Spec == Init /\ [][Next]_vars

\* The controller with POST /auth/logout as well
NextWithLogout ==
    \/ Next
    \/ \E userId \in Authenticated : Logout(userId)

SpecWithLogout == Init /\ [][NextWithLogout]_vars

\* ------------------------------------------------- the database failing
\* a response to a request during which the prisma call `call` rejected
\* because the database could not be reached
StorageFailed(response, call) == response @@ [storageFailedAt |-> call]

\* what a prisma call throws when the database cannot be reached
storageThrows ==
    [status |-> PrismaClientInitializationError, message |-> "Internal server error"]

\* mutant: the row is written although create rejected
sessionsAfterFailedCreate_RowLeft(row) == sessions \cup {row}

\* the Session table after a prisma.session.create that rejected
sessionsAfterFailedCreate(row) == sessions

\* POST /auth/refresh with the cookie refresh_token = token, the database
\* failing at `call`: the rejection is thrown inside refreshToken's try block
RefreshStorageFails(token, call) ==
    LET request == [refresh_token |-> token]
        caught == refreshCatch(storageThrows)
    IN
    /\ verifies(token, JWT_REFRESH_SECRET, now)
    /\ call = "session.findFirst" => findById(token.payload.sub) # {}
    /\ res' = StorageFailed(Response("refresh", request, caught.status, caught.message,
                                      NoFields, NoFields), call)
    /\ UNCHANGED <<users, sessions, nextUserId, nextSessionId, uuidCount, now, ticks,
                   issued, revoked, superseded, registered, pending, hits, cache>>

\* POST /auth/login, the database failing at `call`: nothing catches the
\* rejection, in validateUser's findByEmail or in login's session.create
LoginStorageFails(body, req, call) ==
    IF call = "user.findUnique"
    THEN /\ res' = StorageFailed(Response("login", body, storageThrows.status,
                                           storageThrows.message, NoFields, NoFields), call)
         /\ UNCHANGED <<users, sessions, nextUserId, nextSessionId, uuidCount, now, ticks,
                        issued, revoked, superseded, registered, pending, hits, cache>>
    ELSE \E user \in validateUser(body.email, body.password) :
           LET jti == randomUUID
               tokens == loginTokens(user, jti, now)
               row == loginSession(user, jti, tokens.refreshToken, req, now)
           IN
           /\ uuidCount - (nextSessionId - 1) < MaxCreateFailures
           /\ uuidCount' = uuidCount + 1
           /\ sessions' = sessionsAfterFailedCreate(row)
           /\ res' = StorageFailed(Response("login", body, storageThrows.status,
                                             storageThrows.message, NoFields, NoFields), call)
           /\ UNCHANGED <<users, nextUserId, nextSessionId, now, ticks, issued, revoked,
                          superseded, registered, pending, hits, cache>>

\* the prisma calls of refresh and of login
RefreshCalls == {"user.findUnique", "session.findFirst"}
LoginCalls == {"user.findUnique", "session.create"}

\* register, login and refresh, with the database failing at times
NextWithStorageFailures ==
    \/ \E d \in TickSteps : Tick(d)
    \/ \E body \in RegisterBodies : Register(body)
    \/ \E body \in LoginBodies, req \in Requests : Login(body, req)
    \/ \E token \in Presentable : Refresh(token)
    \/ \E token \in Presentable, call \in RefreshCalls : RefreshStorageFails(token, call)
    \/ \E body \in LoginBodies, req \in Requests, call \in LoginCalls :
          LoginStorageFails(body, req, call)

SpecWithStorageFailures == Init /\ [][NextWithStorageFailures]_vars

\* ------------------------------------------- handlers interleaving at awaits
\* a slot no request in flight occupies
freeSlot == CHOOSE n \in 1..MaxPending : \A p \in pending : p.slot # n

\* the response to a refresh, with the tokens returned by the refreshes of the
\* same session that completed while it was in flight
Raced(response, tokens) == response @@ [raced |-> tokens]

\* what prisma.session.delete({where: {id}}) throws when no row has that id
deleteThrows ==
    [status |-> PrismaClientKnownRequestError, message |-> "Internal server error"]

\* DELETE /auth/sessions/:id up to `await prisma.session.delete`: findUnique
\* and the ownership test
RevokeSessionBegin(sessionId, userId) ==
    LET session == findSessionById(sessionId)
        request == [id |-> sessionId, userId |-> userId]
    IN
    /\ IF revokeForbidden(session, userId)
       THEN /\ res' = Response("revokeSession", request, ForbiddenException,
                               "No autorizado para eliminar esta sesión", NoFields, NoFields)
            /\ UNCHANGED pending
       ELSE /\ Cardinality(pending) < MaxPending
            /\ pending' = pending \cup
                    {[op |-> "revokeSession", slot |-> freeSlot, id |-> sessionId,
                      userId |-> userId]}
            /\ UNCHANGED res
    /\ UNCHANGED <<users, sessions, nextUserId, nextSessionId, uuidCount, now, ticks,
                   issued, revoked, superseded, registered, hits, cache>>

\* DELETE /auth/sessions/:id from `await prisma.session.delete` on
RevokeSessionEnd(p) ==
    LET request == [id |-> p.id, userId |-> p.userId] IN
    /\ p.op = "revokeSession"
    /\ pending' = pending \ {p}
    /\ IF deleteById(p.id) = {}
       THEN /\ res' = Response("revokeSession", request, deleteThrows.status,
                               deleteThrows.message, NoFields, NoFields)
            /\ UNCHANGED <<sessions, revoked>>
       ELSE /\ sessions' = sessions \ deleteById(p.id)
            /\ revoked' = revoked \cup deleteById(p.id)
            /\ res' = Response("revokeSession", request, Ok,
                               "Sesión revocada correctamente", NoFields, NoFields)
    /\ UNCHANGED <<users, nextUserId, nextSessionId, uuidCount, now, ticks, issued,
                   superseded, registered, hits, cache>>

\* POST /auth/refresh up to the end of `await prisma.session.findFirst`
RefreshBegin(token) ==
    LET request == [refresh_token |-> token]
        finds == refreshFinds(token)
    IN
    /\ IF finds = {}
       THEN /\ res' = Response("refresh", request, refreshCatch(refreshThrows(token)).status,
                               refreshCatch(refreshThrows(token)).message, NoFields, NoFields)
            /\ UNCHANGED pending
       ELSE /\ Cardinality(pending) < MaxPending
            /\ \E f \in finds :
                  pending' = pending \cup
                      {[op |-> "refresh", slot |-> freeSlot, token |-> token,
                        user |-> f.user, session |-> f.session, raced |-> {}]}
            /\ UNCHANGED res
    /\ UNCHANGED <<users, sessions, nextUserId, nextSessionId, uuidCount, now, ticks,
                   issued, revoked, superseded, registered, hits, cache>>

\* POST /auth/refresh from the signing of the two tokens on
RefreshEnd(p) ==
    /\ p.op = "refresh"
    /\ LET tokens == refreshTokens(p.user, p.session, now) IN
       /\ Refreshed(issued \cup {tokens.refreshToken}) <= MaxRefreshes + 1
       /\ sessions' = sessionsAfterRefresh(p.session, tokens)
       /\ issued' = issued \cup {tokens.accessToken, tokens.refreshToken}
       /\ superseded' = IF "jti" \in DOMAIN p.token.payload /\ tokens.refreshToken # p.token
                        THEN superseded \cup {p.token} ELSE superseded
       /\ pending' =
             { IF q.op = "refresh" /\ q.session.jti = p.session.jti
               THEN [q EXCEPT !.raced = @ \cup {tokens.refreshToken}]
               ELSE q : q \in pending \ {p} }
       /\ res' = Raced(Response("refresh", [refresh_token |-> p.token], Ok, "",
                                 [accessToken |-> tokens.accessToken],
                                 refreshCookie(tokens.refreshToken)),
                        p.raced)
    /\ UNCHANGED <<users, nextUserId, nextSessionId, uuidCount, now, ticks, revoked,
                   registered, hits, cache>>

\* the inputs of the interleaved runs: one user, logging in with the registered
\* password from one browser
RacingBodies == {b \in RegisterBodies : b.email = "a@x.com"}
RacingRequests == {r \in Requests : r.userAgent # Null}

\* register, login and logoutAll as before, revokeSession and refresh in two
\* steps each
NextInterleaved ==
    \/ \E d \in TickSteps : Tick(d)
    \/ \E body \in RacingBodies : Register(body)
    \/ \E body \in RacingBodies, req \in RacingRequests :
          Login([email |-> body.email, password |-> body.password], req)
    \/ \E id \in 1..nextSessionId, userId \in Authenticated : RevokeSessionBegin(id, userId)
    \/ \E p \in pending : RevokeSessionEnd(p)
    \/ \E token \in Presentable : RefreshBegin(token)
    \/ \E p \in pending : RefreshEnd(p)
    \/ \E userId \in Authenticated : LogoutAll(userId)

SpecInterleaved == Init /\ [][NextInterleaved]_vars

\* ------------------------------------------------ the clock, second by second
\* one second, and the steps that end one second before a token expires
ClockSteps == {1, AccessTTL - 1, RefreshTTL - 1}

\* the clock advances by d seconds
Advance(d) ==
    /\ ticks < MaxClockSteps
    /\ now' = now + d
    /\ ticks' = ticks + 1
    /\ UNCHANGED <<users, sessions, nextUserId, nextSessionId, uuidCount, issued,
                   revoked, superseded, registered, pending, hits, cache, res>>

\* one user registering, logging in and refreshing while the clock advances
NextClock ==
    \/ \E d \in ClockSteps : Advance(d)
    \/ \E body \in RacingBodies : Register(body)
    \/ \E body \in RacingBodies, req \in RacingRequests :
          Login([email |-> body.email, password |-> body.password], req)
    \/ \E token \in Presentable : Refresh(token)
    \/ \E userId \in Authenticated : LogoutAll(userId)

SpecClock == Init /\ [][NextClock]_vars

\* ------------------------------------------------------------ the queries
\* the orders in which a findMany without orderBy may return a set of rows
Orderings(rows) ==
    { seq \in [1..Cardinality(rows) -> rows] :
        \A i, j \in 1..Cardinality(rows) : i # j => seq[i] # seq[j] }

\* GET /auth/sessions by the user the JwtAuthGuard authenticated
GetSessions(userId) ==
    /\ \E rows \in Orderings(getSessions(userId)) :
          res' = Response("getSessions", [userId |-> userId], Ok, "", rows, NoFields)
    /\ UNCHANGED <<users, sessions, nextUserId, nextSessionId, uuidCount, now, ticks,
                   issued, revoked, superseded, registered, pending, hits, cache>>

\* what getProfile throws when findById finds no user
profileNotFound ==
    [status |-> UnauthorizedException, message |-> "Usuario no encontrado"]

\* mutant: the whole User row is returned
profileOf_WholeRow(user) == user

\* the fields getProfile returns of a user
profileOf(user) == [id |-> user.id, email |-> user.email, name |-> user.name]

\* authService.getProfile(userId), which GET /auth/me calls with req.user.sub
GetProfile(userId) ==
    /\ IF findById(userId) = {}
       THEN res' = Response("getProfile", [userId |-> userId], profileNotFound.status,
                            profileNotFound.message, NoFields, NoFields)
       ELSE \E user \in findById(userId) :
              res' = Response("getProfile", [userId |-> userId], Ok, "",
                              profileOf(user), NoFields)
    /\ UNCHANGED <<users, sessions, nextUserId, nextSessionId, uuidCount, now, ticks,
                   issued, revoked, superseded, registered, pending, hits, cache>>

\* registering, logging in with the registered password, revoking and querying
NextQueries ==
    \/ \E d \in TickSteps : Tick(d)
    \/ \E body \in RegisterBodies : Register(body)
    \/ \E body \in RegisterBodies, req \in Requests :
          Login([email |-> body.email, password |-> body.password], req)
    \/ \E token \in RefreshIssued(issued) : Refresh(token)
    \/ \E id \in 1..nextSessionId, userId \in Authenticated : RevokeSession(id, userId)
    \/ \E userId \in Authenticated : LogoutAll(userId)
    \/ \E userId \in Authenticated : GetSessions(userId)
    \/ \E userId \in 1..nextUserId : GetProfile(userId)

SpecQueries == Init /\ [][NextQueries]_vars

\* ------------------------------------------------------------ the throttler
ThrottlerException == "ThrottlerException"

\* the key the throttler counts a request under: the client's address
getTracker(req) == req.ip

\* the counted requests of a client that have not expired: a hit expires
\* ThrottleTTL milliseconds after it was made (the clock is in seconds)
liveHits(tracker) ==
    { i \in DOMAIN hits :
        hits[i].ip = tracker /\ now * 1000 < hits[i].at * 1000 + ThrottleTTL }

\* the guard counts the request and throws when the count exceeds the limit
throttled(tracker) == Cardinality(liveHits(tracker)) + 1 > ThrottleLimit

\* what ThrottlerExceptionFilter answers
ThrottlerExceptionFilter ==
    [status |-> ThrottlerException,
     message |-> "Por favor, espera unos segundos antes de volver a intentarlo.",
     body |-> [statusCode |-> 429, error |-> "Demasiadas peticiones"]]

\* POST /auth/login behind the throttler
ThrottledLogin(body, req) ==
    /\ Len(hits) < MaxHits
    /\ IF throttled(getTracker(req))
       THEN /\ hits' = Append(hits, [ip |-> getTracker(req), at |-> now, served |-> FALSE])
            /\ res' = Response("login", body, ThrottlerExceptionFilter.status,
                               ThrottlerExceptionFilter.message,
                               ThrottlerExceptionFilter.body, NoFields)
            /\ UNCHANGED <<users, sessions, nextUserId, nextSessionId, uuidCount, now,
                           ticks, issued, revoked, superseded, registered, pending, cache>>
       ELSE /\ hits' = Append(hits, [ip |-> getTracker(req), at |-> now, served |-> TRUE])
            /\ LoginRequest(body, req)

\* one client registering and logging in behind the throttler while the
\* clock advances
NextThrottled ==
    \/ \E d \in ClockSteps : Advance(d)
    \/ \E body \in RacingBodies : Register(body)
    \/ \E body \in RacingBodies, req \in RacingRequests :
          ThrottledLogin([email |-> body.email, password |-> body.password], req)

SpecThrottled == Init /\ [][NextThrottled]_vars

\* ------------------------------------------- the legacy single-token path
\* mutant: the stored hash is not tested for null
legacyRefused_NoNullTest(found) == found = {}

\* `!user || !user.refreshToken` of the legacy POST /auth/refresh
legacyRefused(found) ==
    found = {} \/ \E user \in found : user.refreshToken = NoRefreshToken

\* the legacy AuthService.login(email, password) behind POST /auth/login
LegacyLogin(body) ==
    LET found == validateUser(body.email, body.password) IN
    IF found = {}
    THEN /\ res' = Response("legacyLogin", body,
                            validateUserThrows(body.email, body.password).status,
                            validateUserThrows(body.email, body.password).message,
                            NoFields, NoFields)
         /\ UNCHANGED <<users, sessions, nextUserId, nextSessionId, uuidCount, now,
                        ticks, issued, revoked, superseded, registered, pending, hits, cache>>
    ELSE \E user \in found :
           LET tokens == generateTokens(user.id, user.email, now)
               hashedRefreshToken == bcryptHash(jwtString(tokens.refreshToken))
           IN
           /\ users' = updateRefreshToken(users, user.id, hashedRefreshToken)
           /\ issued' = issued \cup {tokens.accessToken, tokens.refreshToken}
           /\ res' = Response("legacyLogin", body, Ok, "",
                              [access_token |-> tokens.accessToken,
                               refresh_token |-> tokens.refreshToken,
                               user |-> [id |-> user.id, email |-> user.email,
                                         name |-> user.name]],
                              NoFields)
           /\ UNCHANGED <<sessions, nextUserId, nextSessionId, uuidCount, now, ticks,
                          revoked, superseded, registered, pending, hits, cache>>

\* the legacy POST /auth/refresh with {userId, refresh_token} in the body
LegacyRefresh(body) ==
    LET found == findById(body.userId) IN
    IF legacyRefused(found)
    THEN /\ res' = Response("legacyRefresh", body, UnauthorizedException,
                            "Usuario no autorizado", NoFields, NoFields)
         /\ UNCHANGED <<users, sessions, nextUserId, nextSessionId, uuidCount, now,
                        ticks, issued, revoked, superseded, registered, pending, hits, cache>>
    ELSE \E user \in found :
           IF ~bcryptCompare(jwtString(body.refresh_token), user.refreshToken)
           THEN /\ res' = Response("legacyRefresh", body, UnauthorizedException,
                                   "Token inválido o caducado", NoFields, NoFields)
                /\ UNCHANGED <<users, sessions, nextUserId, nextSessionId, uuidCount,
                               now, ticks, issued, revoked, superseded, registered,
                               pending, hits, cache>>
           ELSE LET tokens == generateTokens(user.id, user.email, now)
                    hashedRefreshToken == bcryptHash(jwtString(tokens.refreshToken))
                IN
                /\ users' = updateRefreshToken(users, user.id, hashedRefreshToken)
                /\ issued' = issued \cup {tokens.accessToken, tokens.refreshToken}
                /\ res' = Response("legacyRefresh", body, Ok, "",
                                   [access_token |-> tokens.accessToken,
                                    refresh_token |-> tokens.refreshToken],
                                   NoFields)
                /\ UNCHANGED <<sessions, nextUserId, nextSessionId, uuidCount, now,
                               ticks, revoked, superseded, registered, pending, hits, cache>>

\* the bodies a client can send to the legacy POST /auth/refresh
LegacyRefreshBodies == [userId : 1..nextUserId, refresh_token : issued]

\* the legacy controller: register, login, refresh and logout
NextLegacy ==
    \/ \E d \in TickSteps : Tick(d)
    \/ \E body \in RegisterBodies : Register(body)
    \/ \E body \in LoginBodies : LegacyLogin(body)
    \/ \E body \in LegacyRefreshBodies : LegacyRefresh(body)
    \/ \E userId \in Authenticated : Logout(userId)

SpecLegacy == Init /\ [][NextLegacy]_vars

\* ------------------------------------------------------ BaseCacheService
\* what a cache-manager call throws when it fails
CacheError == "Error"

\* a call of BaseCacheService and its outcome; threw tells whether the cache
\* manager call inside it threw
CacheCall(op, req, outcome, threw) ==
    Response(op, req, outcome.status, "", outcome.body, NoFields) @@ [threw |-> threw]

\* mutant: the catch of get rethrows
getCaught_Rethrow(error) == [status |-> error, body |-> NoFields]

\* the catch of get: log, return null
getCaught(error) == [status |-> Ok, body |-> [value |-> Null]]

\* the catch of set, del and reset: log, return nothing
voidCaught(error) == [status |-> Ok, body |-> NoFields]

\* what a failed write may have left in the store: nothing of it, or all of it
afterFailedWrite(written) == {cache, written}

\* BaseCacheService.get(key)
CacheGet(key, throws) ==
    /\ res' = IF throws
              THEN CacheCall("get", [key |-> key], getCaught(CacheError), TRUE)
              ELSE CacheCall("get", [key |-> key],
                             [status |-> Ok, body |-> [value |-> cache[key]]], FALSE)
    /\ UNCHANGED <<users, sessions, nextUserId, nextSessionId, uuidCount, now, ticks,
                   issued, revoked, superseded, registered, pending, hits, cache>>

\* BaseCacheService.set(key, value, ttl)
CacheSet(key, value, throws) ==
    LET written == [cache EXCEPT ![key] = value] IN
    /\ IF throws
       THEN /\ cache' \in afterFailedWrite(written)
            /\ res' = CacheCall("set", [key |-> key, value |-> value],
                                voidCaught(CacheError), TRUE)
       ELSE /\ cache' = written
            /\ res' = CacheCall("set", [key |-> key, value |-> value],
                                [status |-> Ok, body |-> NoFields], FALSE)
    /\ UNCHANGED <<users, sessions, nextUserId, nextSessionId, uuidCount, now, ticks,
                   issued, revoked, superseded, registered, pending, hits>>

\* BaseCacheService.del(key)
CacheDel(key, throws) ==
    LET written == [cache EXCEPT ![key] = Undefined] IN
    /\ IF throws
       THEN /\ cache' \in afterFailedWrite(written)
            /\ res' = CacheCall("del", [key |-> key], voidCaught(CacheError), TRUE)
       ELSE /\ cache' = written
            /\ res' = CacheCall("del", [key |-> key],
                                [status |-> Ok, body |-> NoFields], FALSE)
    /\ UNCHANGED <<users, sessions, nextUserId, nextSessionId, uuidCount, now, ticks,
                   issued, revoked, superseded, registered, pending, hits>>

\* BaseCacheService.reset()
CacheReset(throws) ==
    LET written == [key \in CacheKeys |-> Undefined] IN
    /\ IF throws
       THEN /\ cache' \in afterFailedWrite(written)
            /\ res' = CacheCall("reset", NoFields, voidCaught(CacheError), TRUE)
       ELSE /\ cache' = written
            /\ res' = CacheCall("reset", NoFields,
                                [status |-> Ok, body |-> NoFields], FALSE)
    /\ UNCHANGED <<users, sessions, nextUserId, nextSessionId, uuidCount, now, ticks,
                   issued, revoked, superseded, registered, pending, hits>>

\* callers of BaseCacheService, with a cache manager that may throw
NextCache ==
    \/ \E key \in CacheKeys, throws \in BOOLEAN : CacheGet(key, throws)
    \/ \E key \in CacheKeys, value \in CacheValues, throws \in BOOLEAN :
          CacheSet(key, value, throws)
    \/ \E key \in CacheKeys, throws \in BOOLEAN : CacheDel(key, throws)
    \/ \E throws \in BOOLEAN : CacheReset(throws)

SpecCache == Init /\ [][NextCache]_vars

\* ====================================================================
\* Properties
\* ====================================================================
\* the last request was POST /auth/refresh with a cookie
RefreshPresented == res.op = "refresh" /\ "refresh_token" \in DOMAIN res.req
\* token t carries the jti of a Session row that was deleted
CarriesRevokedJti(t) == "jti" \in DOMAIN t.payload /\ \E s \in revoked : s.jti = t.payload.jti
\* the live Session rows whose jti is the one token t carries
SessionsOf(t) == {s \in sessions : "jti" \in DOMAIN t.payload /\ s.jti = t.payload.jti}

\* C1: a refresh that presents a token carrying the jti of a session deleted by
\* revokeSession or logoutAll ends in Unauthorized, also when the token is
\* validly signed and not yet expired.
C1_DeletedSessionRefreshRejected ==
    (RefreshPresented /\ CarriesRevokedJti(res.req.refresh_token))
        => res.status = UnauthorizedException

\* C1 witness: such a token, signed with the refresh secret and unexpired, was
\* presented after its session was deleted and was refused.
C1_Witness ==
    /\ RefreshPresented
    /\ CarriesRevokedJti(res.req.refresh_token)
    /\ verifies(res.req.refresh_token, JWT_REFRESH_SECRET, now)
    /\ res.status = UnauthorizedException

\* C2: a refresh succeeds only if the presented token carries a jti and a live
\* Session row has that jti, whichever operation minted the token.
C2_RefreshNeedsMatchingSession ==
    (RefreshPresented /\ res.status = Ok) => SessionsOf(res.req.refresh_token) # {}

\* C3: once a refresh presenting token R succeeded and answered with another
\* token, every later refresh presenting R ends in Unauthorized.
C3_ReplacedTokenRejected ==
    [][\A R \in superseded :
          Refresh(R) => res'.status = UnauthorizedException]_vars

\* C4: after a successful refresh of a session (the presented token carries its
\* jti) the Session row with that jti stores the refresh token value returned.
C4_RowStoresReturnedToken ==
    (/\ RefreshPresented
     /\ res.status = Ok
     /\ "jti" \in DOMAIN res.req.refresh_token.payload)
        => \E s \in SessionsOf(res.cookie.value) : s.refreshToken = res.cookie.value

\* POST /auth/refresh presenting token R would succeed
Accepted(R) == refreshToken(R) # {}

\* C5: a successful login adds exactly one Session row, whose id and jti no
\* other row has; a successful revokeSession(id) removes exactly the row with
\* that id, leaves every other row of every user as it was, and every refresh
\* token of another live session that was accepted before is accepted after.
C5_RevokeRemovesOnlyThatRow ==
    [][/\ \A body \in LoginBodies, req \in Requests :
            (Login(body, req) /\ res'.status = Ok) =>
                \E row \in sessions' \ sessions :
                    /\ sessions' = sessions \cup {row}
                    /\ \A s \in sessions : s.id # row.id /\ s.jti # row.jti
       /\ \A id \in 1..nextSessionId, userId \in Authenticated :
            (RevokeSession(id, userId) /\ res'.status = Ok) =>
                /\ \E row \in sessions : row.id = id /\ sessions' = sessions \ {row}
                /\ \A R \in RefreshIssued(issued) :
                      (/\ Accepted(R)
                       /\ SessionsOf(R) # {}
                       /\ \A s \in SessionsOf(R) : s.id # id) => Accepted(R)'
      ]_vars

\* C5 witness: a user with two sessions revoked one of them; the other row is
\* still there and its refresh token is accepted.
C5_Witness ==
    /\ res.op = "revokeSession"
    /\ res.status = Ok
    /\ \E r \in revoked : r.id = res.req.id /\ r.userId = res.req.userId
    /\ \E s \in sessions : s.userId = res.req.userId /\ Accepted(s.refreshToken)

\* C6: revokeSession(id) by a user who does not own the session with that id
\* ends in Forbidden and leaves the Session and User tables as they were; the
\* session's refresh token is accepted after the call if it was before.
C6_ForeignRevokeForbidden ==
    [][\A id \in 1..nextSessionId, userId \in Authenticated :
          (RevokeSession(id, userId) /\ \E s \in sessions : s.id = id /\ s.userId # userId) =>
              /\ res'.status = ForbiddenException
              /\ sessions' = sessions
              /\ users' = users
              /\ \A s \in sessions :
                    (s.id = id /\ Accepted(s.refreshToken)) => Accepted(s.refreshToken)'
      ]_vars

\* C6 witness: a revokeSession by a non-owner was refused and the targeted
\* session is live with its refresh token accepted.
C6_Witness ==
    /\ res.op = "revokeSession"
    /\ res.status = ForbiddenException
    /\ \E s \in sessions :
          /\ s.id = res.req.id
          /\ s.userId # res.req.userId
          /\ Accepted(s.refreshToken)

\* C7: logoutAll(userId) succeeds, deletes exactly the N rows of that user
\* (N >= 0) and leaves the rows of every other user as they were; afterwards
\* the user has no live session.
C7_LogoutAllDeletesExactlyOwn ==
    [][\A userId \in Authenticated :
          LogoutAll(userId) =>
              LET own == {s \in sessions : s.userId = userId} IN
              /\ res'.status = Ok
              /\ sessions' = sessions \ own
              /\ Cardinality(sessions) - Cardinality(sessions') = Cardinality(own)
              /\ \A s \in sessions : s.userId # userId => s \in sessions'
              /\ ~\E s \in sessions' : s.userId = userId
      ]_vars

\* C7 witness: after a logoutAll a row of the caller is among the deleted ones,
\* the caller has no session and another user's session is live.
C7_Witness ==
    /\ res.op = "logoutAll"
    /\ \E r \in revoked : r.userId = res.req.userId
    /\ ~\E s \in sessions : s.userId = res.req.userId
    /\ \E s \in sessions : s.userId # res.req.userId

\* C8: every issued refresh token that is not expired and whose session was not
\* deleted has exactly one live Session row with the token's jti.
C8_IssuedTokenHasOneSession ==
    \A t \in RefreshIssued(issued) :
        (now < t.payload.exp /\ ~CarriesRevokedJti(t)) => Cardinality(SessionsOf(t)) = 1

\* C9: no two Session rows share a jti, no live row has the jti of a deleted
\* row, and a row keeps its jti as long as it lives.
C9_JtiUniqueNeverReused ==
    /\ [](\A s1, s2 \in sessions : s1.jti = s2.jti => s1 = s2)
    /\ [](\A r \in revoked, s \in sessions : s.jti # r.jti)
    /\ [][\A s \in sessions, s2 \in sessions' : s2.id = s.id => s2.jti = s.jti]_vars

\* C9 witness: a login created a session after another session had been deleted.
C9_Witness ==
    /\ res.op = "login"
    /\ res.status = Ok
    /\ revoked # {}
    /\ \E s \in sessions : s.refreshToken = res.cookie.value

\* C10: for a registered (email, password), login with that pair succeeds and
\* creates a session; login with that email and any other password ends in
\* the invalid-credentials error and creates no session.
C10_LoginMatchesRegisteredPassword ==
    [][\A body \in LoginBodies, req \in Requests, b \in registered :
          (Login(body, req) /\ b.email = body.email) =>
              IF body.password = b.password
              THEN res'.status = Ok /\ sessions' # sessions
              ELSE /\ res'.status = UnauthorizedException
                   /\ res'.message = "Credenciales inválidas"
                   /\ sessions' = sessions
      ]_vars

\* what the caller of a request sees of its response
Visible(r) == [status |-> r.status, message |-> r.message, body |-> r.body, cookie |-> r.cookie]

\* C11: a failed login shows the caller the same error kind, message, body and
\* cookie whether the email is unknown or the password is wrong: what
\* validateUser throws for an unknown email equals what it throws for a known
\* email with a wrong password, and that is all a failed login responds with.
C11_LoginFailureHidesExistence ==
    /\ \A b1, b2 \in LoginBodies :
          (/\ findByEmail(b1.email) = {}
           /\ findByEmail(b2.email) # {}
           /\ validateUser(b2.email, b2.password) = {})
              => validateUserThrows(b1.email, b1.password) = validateUserThrows(b2.email, b2.password)
    /\ (res.op = "login" /\ res.status # Ok) =>
          \A b \in LoginBodies :
              findByEmail(b.email) = {} =>
                  Visible(res) = [status |-> validateUserThrows(b.email, b.password).status,
                                  message |-> validateUserThrows(b.email, b.password).message,
                                  body |-> NoFields, cookie |-> NoFields]

\* C11 witness: a login with a registered email and a wrong password failed
\* while another email is not registered.
C11_Witness ==
    /\ res.op = "login"
    /\ res.status = UnauthorizedException
    /\ findByEmail(res.req.email) # {}
    /\ \E e \in Emails : findByEmail(e) = {}

\* C12: right after a successful register the new user has exactly one live
\* Session row, its jti is the one embedded in the returned refresh token, and
\* that token is accepted by refresh.
C12_RegisterCreatesSession ==
    (res.op = "register" /\ res.status = Ok /\ now = res.body.refresh_token.payload.iat) =>
        /\ Cardinality({s \in sessions : s.userId = res.body.user.id}) = 1
        /\ \E s \in SessionsOf(res.body.refresh_token) : s.userId = res.body.user.id
        /\ Accepted(res.body.refresh_token)

\* the exceptions a handler throws on purpose (Nest maps each to its own 4xx
\* response); anything else surfaces as an unhandled 500
HttpExceptions ==
    {UnauthorizedException, ForbiddenException, "NotFoundException", "ConflictException",
     "BadRequestException"}

\* C13: register with an email that a stored user already has ends in a typed
\* email-taken failure and leaves the User table, the Session table and the
\* set of issued tokens as they were.
C13_DuplicateEmailTypedFailure ==
    [][\A body \in RegisterBodies :
          (Register(body) /\ findByEmail(body.email) # {}) =>
              /\ res'.status \in HttpExceptions
              /\ users' = users
              /\ sessions' = sessions
              /\ issued' = issued
      ]_vars

\* C14: a successful register returns access_token, refresh_token and the new
\* user's id, email and name; the tokens are signed with the access and the
\* refresh secret for that user, and the User row of that id stores
\* bcrypt.hash of the returned refresh token, which bcrypt.compare accepts.
C14_RegisterReturnsPairStoresHash ==
    (res.op = "register" /\ res.status = Ok) =>
        /\ DOMAIN res.body = {"access_token", "refresh_token", "user"}
        /\ res.body.access_token.secret = JWT_SECRET
        /\ res.body.refresh_token.secret = JWT_REFRESH_SECRET
        /\ res.body.access_token.payload.sub = res.body.user.id
        /\ res.body.refresh_token.payload.sub = res.body.user.id
        /\ res.body.user.email = res.req.email
        /\ res.body.user.name = res.req.name
        /\ \E u \in users :
              /\ u.id = res.body.user.id
              /\ u.email = res.req.email
              /\ u.refreshToken = bcryptHash(jwtString(res.body.refresh_token))
              /\ bcryptCompare(jwtString(res.body.refresh_token), u.refreshToken)
        /\ \A u \in users : u.id # res.body.user.id => u.email # res.req.email

\* C14 witness: a second user registered at a later time than the first.
C14_Witness ==
    /\ res.op = "register"
    /\ res.status = Ok
    /\ res.body.user.id = 2
    /\ res.body.refresh_token.payload.iat > 0
    /\ \E u \in users : u.id = 2 /\ u.refreshToken # NoRefreshToken

\* C15: a successful refresh neither creates nor deletes a Session row (the
\* same ids and jtis are live, and every user's session list has the same
\* length); right after logoutAll the caller's session list is empty.
C15_RefreshKeepsSessionCount ==
    [][/\ \A token \in Presentable :
            (Refresh(token) /\ res'.status = Ok) =>
                /\ {<<s.id, s.jti, s.userId>> : s \in sessions'}
                      = {<<s.id, s.jti, s.userId>> : s \in sessions}
                /\ Cardinality(sessions') = Cardinality(sessions)
                /\ \A u \in users :
                      Cardinality(getSessions(u.id)') = Cardinality(getSessions(u.id))
       /\ \A userId \in Authenticated :
            LogoutAll(userId) => getSessions(userId)' = {}
      ]_vars

\* C15 witness: a user logged in, refreshed that session's token and then
\* called logoutAll; the session list is empty.
C15_Witness ==
    /\ res.op = "logoutAll"
    /\ getSessions(res.req.userId) = {}
    /\ \E t \in superseded : t.payload.sub = res.req.userId /\ CarriesRevokedJti(t)

\* C16: a request during which the database failed never ends in an
\* authentication failure (Unauthorized or Forbidden).
C16_StorageFailureNotAuthFailure ==
    "storageFailedAt" \in DOMAIN res =>
        res.status \notin {UnauthorizedException, ForbiddenException}

\* C17: a revokeSession call, whatever other revokeSession call on the same
\* session id it runs before, after or interleaved with, ends in success or in
\* a typed failure (Forbidden, NotFound), never in an uncaught storage
\* exception.
C17_DoubleRevokeFailsCleanly ==
    res.op = "revokeSession" => res.status \in {Ok} \cup HttpExceptions

\* C18: when a refresh of a live session completes after another refresh of the
\* same session that it raced with, exactly one Session row has that jti and
\* the refresh token it stores is the one a racing refresh returned.
C18_RacingRefreshRowHoldsWinner ==
    (/\ RefreshPresented
     /\ res.status = Ok
     /\ "raced" \in DOMAIN res
     /\ res.raced # {}
     /\ SessionsOf(res.cookie.value) # {}) =>
        /\ Cardinality(SessionsOf(res.cookie.value)) = 1
        /\ \A s \in SessionsOf(res.cookie.value) :
              s.refreshToken \in res.raced \cup {res.cookie.value}

\* C19: a login that returned tokens created the Session row holding the
\* refresh token's jti, the user's id and that refresh token value; a login
\* that did not succeed returns no token and no cookie, and a login whose
\* session.create failed leaves the Session table and the issued tokens as
\* they were.
C19_LoginAtomicWithSession ==
    /\ []((res.op = "login" /\ res.status = Ok) =>
            /\ DOMAIN res.body = {"accessToken"}
            /\ \E s \in sessions :
                  /\ s.refreshToken = res.cookie.value
                  /\ s.jti = res.cookie.value.payload.jti
                  /\ s.userId = res.cookie.value.payload.sub
                  /\ s.userId = res.body.accessToken.payload.sub)
    /\ []((res.op = "login" /\ res.status # Ok) =>
            res.body = NoFields /\ res.cookie = NoFields)
    /\ [][\A body \in LoginBodies, req \in Requests :
             LoginStorageFails(body, req, "session.create") =>
                 /\ sessions' = sessions
                 /\ issued' = issued
                 /\ res'.status # Ok
         ]_vars

\* C19 witness: a login passed validateUser, drew a jti and signed its tokens,
\* and session.create failed.
C19_Witness ==
    /\ res.op = "login"
    /\ "storageFailedAt" \in DOMAIN res
    /\ res.storageFailedAt = "session.create"
    /\ uuidCount > nextSessionId - 1
    /\ validateUser(res.req.email, res.req.password) # {}

\* a refresh token of a live session of a stored user
OfLiveSession(t) ==
    /\ t.secret = JWT_REFRESH_SECRET
    /\ SessionsOf(t) # {}
    /\ findById(t.payload.sub) # {}

\* C20 (as stated): a refresh token minted at T whose session is live is
\* accepted by refresh at every time up to and including T + 7 days, and
\* rejected at every later time.
C20_AcceptedThroughSevenDays ==
    \A t \in issued :
        OfLiveSession(t) => (Accepted(t) <=> now <= t.payload.iat + RefreshTTL)

\* C20 (amended): a refresh token minted at T whose session is live is
\* accepted by refresh at every time before T + 7 days and rejected from
\* T + 7 days on; a refresh presenting it answers accordingly.
C20_AcceptedBeforeSevenDays ==
    /\ [](\A t \in issued :
            OfLiveSession(t) => (Accepted(t) <=> now < t.payload.iat + RefreshTTL))
    /\ [][\A t \in issued :
             (OfLiveSession(t) /\ Refresh(t)) =>
                 (res'.status = Ok <=> now < t.payload.iat + RefreshTTL)
         ]_vars

\* C20 witness: a refresh token of a live session, minted by a refresh, was
\* presented exactly 7 days after it was minted and was refused.
C20_Witness ==
    /\ RefreshPresented
    /\ res.status = UnauthorizedException
    /\ OfLiveSession(res.req.refresh_token)
    /\ res.req.refresh_token.payload.iat > 0
    /\ now = res.req.refresh_token.payload.iat + RefreshTTL

C22_CrossKindRejected ==
    /\ [](\A t \in issued :
            /\ t.secret = JWT_SECRET => ~Accepted(t)
            /\ t.secret = JWT_REFRESH_SECRET => ~JwtAuthGuard(t))
    /\ [][\A t \in issued :
             (t.secret = JWT_SECRET /\ Refresh(t)) =>
                 /\ res'.status = UnauthorizedException
                 /\ sessions' = sessions
                 /\ issued' = issued
         ]_vars

\* C22 witness: an unexpired access token of a user with a live session was
\* presented to refresh and refused.
C22_Witness ==
    /\ RefreshPresented
    /\ res.req.refresh_token.secret = JWT_SECRET
    /\ res.req.refresh_token \in issued
    /\ now < res.req.refresh_token.payload.exp
    /\ \E s \in sessions : s.userId = res.req.refresh_token.payload.sub
    /\ res.status = UnauthorizedException

\* C23: verifying the refresh token a login minted recovers the user id and
\* the jti the login wrote to its Session row; the refresh token returned by
\* refresh(R), R carrying a jti, verifies and carries the subject and jti
\* that verifying R recovers.
C23_MintVerifyRoundTrip ==
    /\ [](\A s \in sessions \cup revoked :
            /\ s.refreshToken.secret = JWT_REFRESH_SECRET
            /\ verify(s.refreshToken).sub = s.userId
            /\ verify(s.refreshToken).jti = s.jti)
    /\ [][\A R \in issued :
             (/\ R.secret = JWT_REFRESH_SECRET
              /\ "jti" \in DOMAIN R.payload
              /\ Refresh(R)
              /\ res'.status = Ok) =>
                 /\ verifies(res'.cookie.value, JWT_REFRESH_SECRET, now)
                 /\ verify(res'.cookie.value).sub = verify(R).sub
                 /\ verify(res'.cookie.value).jti = verify(R).jti
         ]_vars

\* C23 witness: a refresh of a login's token answered with a token minted at
\* a later time.
C23_Witness ==
    /\ RefreshPresented
    /\ res.status = Ok
    /\ "jti" \in DOMAIN res.req.refresh_token.payload
    /\ res.cookie.value.payload.iat > res.req.refresh_token.payload.iat
    /\ \E s \in sessions : s.refreshToken = res.req.refresh_token

\* the revokeSession just answered was for an id no Session row has
RevokedAbsent ==
    /\ res.op = "revokeSession"
    /\ ~\E s \in sessions : s.id = res.req.id

Selected(s) ==
    [id |-> s.id, userAgent |-> s.userAgent, ip |-> s.ip,
     createdAt |-> s.createdAt, updatedAt |-> s.updatedAt]

\* C25: the answer of getSessions lists each live session of the caller once
\* and no session of another user, and every entry has the fields id,
\* userAgent, ip, createdAt and updatedAt only (no refresh token, no jti).
C25_ListOwnSessionsRedacted ==
    res.op = "getSessions" =>
        /\ res.status = Ok
        /\ {res.body[i] : i \in DOMAIN res.body}
              = {Selected(s) : s \in {r \in sessions : r.userId = res.req.userId}}
        /\ Len(res.body) = Cardinality({r \in sessions : r.userId = res.req.userId})
        /\ \A i \in DOMAIN res.body :
              DOMAIN res.body[i] = {"id", "userAgent", "ip", "createdAt", "updatedAt"}

\* C25 witness: getSessions answered a user who has a session while another
\* user has a session too.
C25_Witness ==
    /\ res.op = "getSessions"
    /\ Len(res.body) = 1
    /\ \E s \in sessions : s.userId # res.req.userId

\* C26: getSessions returns the sessions in creation order: of two entries
\* the one created earlier (the smaller autoincrement id) comes first.
C26_ListInCreationOrder ==
    res.op = "getSessions" =>
        \A i, j \in DOMAIN res.body :
            i < j => /\ res.body[i].id < res.body[j].id
                     /\ res.body[i].createdAt <= res.body[j].createdAt

C30_WitnessFound ==
    /\ res.op = "getProfile"
    /\ res.status = Ok
    /\ \E user \in users : user.id = res.body.id

\* C27: after logout(userId) the refresh token that user obtained at login
\* (the one a Session row of the user stores) is no longer accepted by refresh.
C27_LogoutRevokesLoginToken ==
    [][\A userId \in Authenticated :
          Logout(userId) =>
              \A s \in sessions : s.userId = userId => ~Accepted(s.refreshToken)'
      ]_vars

\* C29: every successful register, login and refresh sets the refresh token
\* as the HTTP-only, secure, same-site-strict cookie scoped to /auth/refresh
\* with a 7-day max-age, and its body carries an access token and no refresh
\* token.
C29_RefreshTokenOnlyInCookie ==
    (res.status = Ok /\ res.op \in {"register", "login", "refresh"}) =>
        /\ DOMAIN res.cookie = DOMAIN refreshCookie(Null)
        /\ res.cookie = refreshCookie(res.cookie.value)
        /\ res.cookie.value \in RefreshIssued(issued)
        /\ \E f \in DOMAIN res.body : res.body[f] \in issued \ RefreshIssued(issued)
        /\ \A f \in DOMAIN res.body \ {"user"} : res.body[f] \notin RefreshIssued(issued)

\* the requests of the client of hit i that reached the handler in the 60
\* seconds that start with hit i
ServedInWindow(i) ==
    { j \in DOMAIN hits :
        /\ hits[j].served
        /\ hits[j].ip = hits[i].ip
        /\ hits[i].at <= hits[j].at
        /\ hits[j].at < hits[i].at + ThrottleTTL }

\* C28: for each client at most 10 requests reach the handler within any
\* 60-second window (ttl 60 read as seconds).
C28_AtMostTenPerMinute ==
    \A i \in DOMAIN hits :
        hits[i].served => Cardinality(ServedInWindow(i)) <= ThrottleLimit

\* C31: logout(userId) clears the stored refresh hash of that user and changes
\* nothing else: every Session row stays, every other User row stays, and the
\* other fields of that user's row stay.
C31_LogoutOnlyClearsOwnHash ==
    [][\A userId \in Authenticated :
          Logout(userId) =>
              /\ sessions' = sessions
              /\ {u \in users' : u.id # userId} = {u \in users : u.id # userId}
              /\ \A u \in users : u.id = userId =>
                    [u EXCEPT !.refreshToken = NoRefreshToken] \in users'
              /\ Cardinality(users') = Cardinality(users)
              /\ <<nextUserId, nextSessionId, issued, revoked>>'
                    = <<nextUserId, nextSessionId, issued, revoked>>
      ]_vars

\* C31 witness: a logout cleared the hash of a user who has a Session row,
\* while another user still has a stored hash and a Session row.
C31_Witness ==
    /\ res.op = "logout"
    /\ \E u \in users : u.id = res.req.userId /\ u.refreshToken = NoRefreshToken
    /\ \E s \in sessions : s.userId = res.req.userId
    /\ \E u \in users : u.id # res.req.userId /\ u.refreshToken # NoRefreshToken
    /\ \E s \in sessions : s.userId # res.req.userId

\* C32: every refresh token that carries a jti names as its subject the owner
\* of the Session row (live or deleted) with that jti: no user is handed a
\* refresh token bound to another user's session.
C32_TokenSubjectOwnsSession ==
    \A t \in RefreshIssued(issued) :
        "jti" \in DOMAIN t.payload =>
            \A s \in sessions \cup revoked :
                s.jti = t.payload.jti => s.userId = t.payload.sub

\* the refresh tokens that carry the jti of session row r
TokensFor(r) ==
    {t \in RefreshIssued(issued) : "jti" \in DOMAIN t.payload /\ t.payload.jti = r.jti}

\* C33: however a refresh interleaves with the revokeSession or logoutAll that
\* deletes its session, the deleted session stays absent (no row has its id or
\* its jti again) and every refresh token carrying its jti, the one the
\* racing refresh returned included, is rejected by refresh from then on.
C33_RaceCannotResurrectSession ==
    \A r \in revoked :
        /\ \A s \in sessions : s.id # r.id /\ s.jti # r.jti
        /\ \A t \in TokensFor(r) : ~Accepted(t)

\* C33 witness: a refresh that found its session before the session was
\* deleted completed after the deletion and returned a token for it; nothing
\* is in flight any more.
C33_Witness ==
    /\ res.op = "refresh"
    /\ res.status = Ok
    /\ pending = {}
    /\ \E r \in revoked : res.cookie.value \in TokensFor(r)

\* the reasons for which refresh must refuse token t: bad signature, expired,
\* unknown user, no session for its jti
MustBeRefused(t) ==
    \/ t.secret # JWT_REFRESH_SECRET
    \/ now >= t.payload.exp
    \/ \A u \in users : u.id # t.payload.sub
    \/ "jti" \in DOMAIN t.payload /\ SessionsOf(t) = {}

\* C34: a refresh without cookie, or with a token that is badly signed,
\* expired, of an unknown user or without a session for its jti, ends in
\* Unauthorized; and a refresh that ends in Unauthorized leaves the Session
\* and User tables as they were, returns no token and sets no cookie.
C34_FailedRefreshChangesNothing ==
    [][/\ RefreshNoCookie => res'.status = UnauthorizedException
       /\ \A token \in Presentable :
             (Refresh(token) /\ MustBeRefused(token)) =>
                 res'.status = UnauthorizedException
       /\ (res'.op = "refresh" /\ res'.status # Ok) =>
             /\ res'.status = UnauthorizedException
             /\ <<users, sessions, issued>>' = <<users, sessions, issued>>
             /\ res'.body = NoFields
             /\ res'.cookie = NoFields
      ]_vars

\* C34 witness: a refresh with a validly signed, unexpired token whose session
\* was deleted was refused while another session is live.
C34_Witness ==
    /\ RefreshPresented
    /\ res.status = UnauthorizedException
    /\ CarriesRevokedJti(res.req.refresh_token)
    /\ res.req.refresh_token.secret = JWT_REFRESH_SECRET
    /\ now < res.req.refresh_token.payload.exp
    /\ sessions # {}

\* the users whose stored refresh hash is null
WithoutHash(table) == {u.id : u \in {v \in table : v.refreshToken = NoRefreshToken}}

\* C35: on the legacy path a refresh for a user whose stored refresh hash is
\* null (as after logout) or who does not exist is refused with Unauthorized
\* and changes nothing; a null hash is replaced only by a register or a
\* legacy login; and a successful legacy refresh leaves as the stored hash
\* the hash of the refresh token it returned.
C35_LegacyRefreshNeedsStoredHash ==
    [][/\ \A body \in LegacyRefreshBodies :
             LegacyRefresh(body) =>
                 /\ (body.userId \in WithoutHash(users) \/ findById(body.userId) = {}) =>
                       /\ res'.status = UnauthorizedException
                       /\ res'.message = "Usuario no autorizado"
                       /\ res'.body = NoFields
                       /\ <<users, issued>>' = <<users, issued>>
                 /\ res'.status = Ok =>
                       \A user \in users' : user.id = body.userId =>
                           bcryptCompare(jwtString(res'.body.refresh_token), user.refreshToken)
       /\ \A userId \in WithoutHash(users) \ WithoutHash(users') :
             res'.op \in {"register", "legacyLogin"} /\ res'.status = Ok
       /\ \A userId \in Authenticated :
             Logout(userId) => userId \in WithoutHash(users')
      ]_vars

\* C35 witness: after a logout, a legacy refresh with a refresh token that was
\* issued to that user was refused because the stored hash is null.
C35_Witness ==
    /\ res.op = "legacyRefresh"
    /\ res.status = UnauthorizedException
    /\ res.req.userId \in WithoutHash(users)
    /\ res.req.refresh_token \in RefreshIssued(issued)
    /\ res.req.refresh_token.payload.sub = res.req.userId

\* C35 witness of the other half: a legacy refresh succeeded for a user
\* who had logged in, and the stored hash matches the token it returned.
C35_WitnessRefreshed ==
    /\ res.op = "legacyRefresh"
    /\ res.status = Ok
    /\ \E user \in users :
          /\ user.id = res.req.userId
          /\ bcryptCompare(jwtString(res.body.refresh_token), user.refreshToken)

CacheOps == {"get", "set", "del", "reset"}

\* C36: a call of BaseCacheService returns normally also when the cache
\* manager threw: get then returns null, set, del and reset return nothing;
\* when the cache manager did not throw, get returns what the cache manager
\* holds for that key.
C36_CacheFailuresSwallowed ==
    res.op \in CacheOps =>
        /\ res.status = Ok
        /\ (res.op = "get" /\ res.threw) => res.body = [value |-> Null]
        /\ (res.op = "get" /\ ~res.threw) => res.body = [value |-> cache[res.req.key]]
        /\ res.op # "get" => res.body = NoFields

\* C36 witness: get returned null because the cache manager threw, while the
\* cache manager holds a value for that key.
C36_Witness ==
    /\ res.op = "get"
    /\ res.threw
    /\ res.body = [value |-> Null]
    /\ cache[res.req.key] \in CacheValues

====
